---------------------------- MODULE Spec2Model ----------------------------
(***************************************************************************)
(* Model of the EM driver of GMM_2.5D_with_EM_visualized.ipynb:            *)
(* run_em_algorithm with the numeric steps it calls (expectation_step,     *)
(* maximization_step, compute_aic) and initialize_parameters.              *)
(*                                                                         *)
(* Numbers.  numpy floats are modelled as extended rationals <<n, d>>      *)
(* with d >= 0 in lowest terms: d > 0 is the finite value n/d, <<1,0>> is  *)
(* +inf, <<-1,0>> is -inf and <<0,0>> is NaN, with the IEEE rules numpy    *)
(* applies (x/0 = inf, 0/0 = NaN, inf-inf = NaN, NaN compares false).      *)
(* Rounding is not modelled: finite arithmetic is exact.                   *)
(*                                                                         *)
(* Densities.  pi[i] * multivariate_normal(mu[i], cov[i]).pdf(data) is a   *)
(* transcendental function of the parameters; its value at each point is   *)
(* an input of the model, drawn from Densities (0 is an underflowed        *)
(* density).  np.log is modelled by the integer part of log2, which keeps  *)
(* what the driver depends on: log(0) = -inf and monotonicity.             *)
(*                                                                         *)
(* Objects.  Python passes references.  Every array is an object of heap,  *)
(* named <<kind, g>> where g = 0 for the caller's object and g = i + 1 for *)
(* the object built in iteration i; the locals pi, mu, cov, r, m_c hold    *)
(* names.  Objects no name refers to any more are dropped.                 *)
(*                                                                         *)
(* Exceptions.  A library call that raises (scipy on a singular or NaN     *)
(* covariance) ends the run with no further state change, which every      *)
(* behaviour of Spec already allows by stuttering.                         *)
(***************************************************************************)
EXTENDS Integers, Sequences, FiniteSets, TLC

\* Bounds of the model.
MaxIter == 5
NumComp == 2

\* Program constants.
Dim == 2
Patience == 3
Stride == 10

VARIABLES
    max_iter,           \* argument max_iter
    threshold,          \* argument threshold
    data,               \* argument data (object name)
    pi, mu, cov,        \* locals pi, mu, cov (object names)
    r, m_c,             \* locals r, m_c (object names, <<"none", 0>> before iteration 0)
    heap,               \* object name -> array value
    previous_aic,       \* local previous_aic
    no_improve_count,   \* local no_improve_count
    aic_list,           \* local aic_list, the value returned
    it,                 \* loop variable
    status,             \* "RUNNING", "CONVERGED" (return at line 47), "EXHAUSTED" (return at line 53)
    shown,              \* snapshots handed to print / plot_gaussian_mixtures
    message,            \* the closing line printed
    e_steps             \* number of expectation_step calls made

vars == <<max_iter, threshold, data, pi, mu, cov, r, m_c, heap, previous_aic,
          no_improve_count, aic_list, it, status, shown, message, e_steps>>

-----------------------------------------------------------------------------
\* Extended rational arithmetic (numpy float semantics, exact on finite values).

NaN == <<0, 0>>
PInf == <<1, 0>>
NInf == <<-1, 0>>

Abs(x) == IF x < 0 THEN -x ELSE x
Sign(x) == IF x < 0 THEN -1 ELSE IF x > 0 THEN 1 ELSE 0

RECURSIVE GCD(_, _)
GCD(a, b) == IF b = 0 THEN a ELSE GCD(b, a % b)

Norm(n, d) ==
    IF d = 0 THEN <<Sign(n), 0>>
    ELSE LET g == GCD(Abs(n), Abs(d)) IN <<(Sign(d) * n) \div g, Abs(d) \div g>>

Num(n) == <<n, 1>>
Zero == Num(0)

IsNaN(a) == a = NaN
IsInf(a) == a[2] = 0 /\ a[1] # 0
IsFinite(a) == a[2] > 0

RAdd(a, b) ==
    IF IsNaN(a) \/ IsNaN(b) THEN NaN
    ELSE IF IsInf(a) THEN (IF IsInf(b) /\ b # a THEN NaN ELSE a)
    ELSE IF IsInf(b) THEN b
    ELSE Norm(a[1] * b[2] + b[1] * a[2], a[2] * b[2])

RNeg(a) == <<-a[1], a[2]>>
RSub(a, b) == RAdd(a, RNeg(b))

RMul(a, b) == IF IsNaN(a) \/ IsNaN(b) THEN NaN ELSE Norm(a[1] * b[1], a[2] * b[2])

\* 1/b; the zero of the model is +0, so 1/0 = +inf.
RRecip(b) ==
    IF IsNaN(b) THEN NaN
    ELSE IF IsInf(b) THEN Zero
    ELSE IF b[1] = 0 THEN PInf
    ELSE Norm(b[2], b[1])

RDiv(a, b) == RMul(a, RRecip(b))

\* a < b as a float comparison: false whenever a NaN is involved.
RLess(a, b) ==
    IF IsNaN(a) \/ IsNaN(b) THEN FALSE
    ELSE IF a = b THEN FALSE
    ELSE IF a = NInf \/ b = PInf THEN TRUE
    ELSE IF a = PInf \/ b = NInf THEN FALSE
    ELSE a[1] * b[2] < b[1] * a[2]

RECURSIVE SeqSum(_)
SeqSum(s) == IF s = <<>> THEN Zero ELSE RAdd(Head(s), SeqSum(Tail(s)))

RECURSIVE FloorLog2(_)
FloorLog2(n) == IF n <= 1 THEN 0 ELSE 1 + FloorLog2(n \div 2)

\* np.log
Log(a) ==
    IF IsNaN(a) \/ a[1] < 0 THEN NaN
    ELSE IF a = PInf THEN PInf
    ELSE IF a[1] = 0 THEN NInf
    ELSE Num(FloorLog2(a[1]) - FloorLog2(a[2]))

VecFinite(v) == \A i \in DOMAIN v : IsFinite(v[i])
MatFinite(m) == \A i \in DOMAIN m : VecFinite(m[i])

-----------------------------------------------------------------------------
\* Inputs.

Thresholds == {Num(0), Num(1), Num(3)}
Seeds == {0}

\* The caller's dataset, one row per point: the points (1, 2) and (2, 4).
Dataset == <<<<Num(1), Num(2)>>, <<Num(2), Num(4)>>>>
NumPoints == Len(Dataset)

\* The values a density pi[i] * pdf(x) takes: 0.0 (underflow) or a positive
\* number.
Densities == {Zero, Num(1)}

\* The arrays pi[i] * pdf(data) can be for finite parameters, laid out as r is
\* (one row per point, one column per component).
DensTables == [1..NumPoints -> [1..NumComp -> Densities]]

\* The same array when a parameter of a component is NaN: its column is NaN,
\* hence every row sum; the table of NaNs stands for all such arrays.
NaNTable == [n \in 1..NumPoints |-> [k \in 1..NumComp |-> NaN]]

\* np.random.seed(seed); np.random.rand(num_components, 2): a fixed array of
\* numbers of [0, 1) for each seed.
Rand(num_components, seed) ==
    [k \in 1..num_components |-> [d \in 1..Dim |-> Norm((seed + k + d) % 4, 4)]]

\* initialize_parameters
InitializeParameters(num_components, seed) ==
    [pis |-> [k \in 1..num_components |-> RDiv(Num(1), Num(num_components))],
     mus |-> [k \in 1..num_components |->
                [d \in 1..Dim |-> RSub(RMul(Rand(num_components, seed)[k][d], Num(4)), Num(2))]],
     sigmas |-> [k \in 1..num_components |->
                [a \in 1..Dim |-> [b \in 1..Dim |-> IF a = b THEN Num(1) ELSE Num(0)]]]]

-----------------------------------------------------------------------------
\* expectation_step, on the array w of weighted densities.

\* Variant of Responsibilities: r /= r.sum(), the sum of the whole array.
ResponsibilitiesByTotal(w) ==
    [n \in DOMAIN w |-> [k \in DOMAIN w[n] |->
        RDiv(w[n][k], SeqSum([i \in DOMAIN w |-> SeqSum(w[i])]))]]

\* r /= r.sum(axis=1, keepdims=True)
Responsibilities(w) ==
    [n \in DOMAIN w |-> [k \in DOMAIN w[n] |-> RDiv(w[n][k], SeqSum(w[n]))]]

\* m_c = r.sum(axis=0)
EffectiveCounts(rv, num_components) ==
    [k \in 1..num_components |-> SeqSum([n \in DOMAIN rv |-> rv[n][k]])]

\* pi = m_c / m_c.sum()
MixingWeights(mc) == [k \in DOMAIN mc |-> RDiv(mc[k], SeqSum(mc))]

\* maximization_step

\* mu = [r[:, i].dot(data) / m_c[i]]
Means(dv, rv, mc) ==
    [k \in DOMAIN mc |->
        [d \in 1..Dim |-> RDiv(SeqSum([n \in DOMAIN dv |-> RMul(rv[n][k], dv[n][d])]), mc[k])]]

\* cov = [np.dot((data - mu[i]).T, (data - mu[i]) * r[:, i][:, np.newaxis]) / m_c[i]]
Covariances(dv, rv, mc, muv) ==
    [k \in DOMAIN mc |->
        [a \in 1..Dim |-> [b \in 1..Dim |->
            RDiv(SeqSum([n \in DOMAIN dv |->
                    RMul(RSub(dv[n][a], muv[k][a]),
                         RMul(RSub(dv[n][b], muv[k][b]), rv[n][k]))]),
                 mc[k])]]]

\* expectation_step: the values of r, m_c and pi it returns; len(pi) components.
ExpectationStep(piv, w) ==
    LET rv  == Responsibilities(w)
        mcv == EffectiveCounts(rv, Len(piv))
    IN [r |-> rv, m_c |-> mcv, pi |-> MixingWeights(mcv)]

\* maximization_step: the values of mu and cov it returns.
MaximizationStep(dv, rv, mc) ==
    LET muv == Means(dv, rv, mc)
    IN [mu |-> muv, cov |-> Covariances(dv, rv, mc, muv)]

ParamsFinite(piv, muv, covv) ==
    /\ VecFinite(piv)
    /\ MatFinite(muv)
    /\ \A k \in DOMAIN covv : MatFinite(covv[k])

\* compute_aic, on the array dens of weighted densities of the parameters scored.
ComputeAic(num_components, dens) ==
    LET k == num_components * (Dim + (Dim * (Dim + 1)) \div 2 + 1)
        likelihood == SeqSum([n \in DOMAIN dens |-> Log(SeqSum(dens[n]))])
    IN RSub(Num(2 * k), RMul(Num(2), likelihood))

-----------------------------------------------------------------------------
\* Objects.

Obj(kind, g) == <<kind, g>>
NoObj == Obj("none", 0)

\* The objects main() owns and passes to run_em_algorithm.
CallerObjects == {Obj("data", 0), Obj("pi", 0), Obj("mu", 0), Obj("cov", 0)}

\* Variant of Rebind: the result is written into the object the name refers to
\* (`name[:] = <expression>`).
RebindInPlace(old, fresh) == old

\* `name = <expression>`: the expression builds a new array, fresh, and the
\* local name is bound to it; the object the name referred to before, old, is
\* not written.
Rebind(old, fresh) == fresh

\* The heap after the arrays of an iteration are stored, in the order r, m_c,
\* pi, mu, cov; an object no name refers to any more is dropped.
Store(h, rn, rv, mcn, mcv, pin, piv, mun, muv, covn, covv) ==
    [o \in CallerObjects \cup {rn, mcn, pin, mun, covn} |->
        IF o = covn THEN covv
        ELSE IF o = mun THEN muv
        ELSE IF o = pin THEN piv
        ELSE IF o = mcn THEN mcv
        ELSE IF o = rn THEN rv
        ELSE h[o]]

-----------------------------------------------------------------------------
\* run_em_algorithm

\* Variant of InitialPreviousAic: previous_aic = 0.
InitialPreviousAicZero == Zero

\* previous_aic = float('inf')
InitialPreviousAic == PInf

\* Variant of LoopGuard: range(max_iter + 1).
LoopGuardInclusive(i, m) == i <= m

\* for it in range(max_iter)
LoopGuard(i, m) == i < m

\* Variant of AppendAic: aic_list.insert(0, current_aic).
AppendAicFront(list, a) == <<a>> \o list

\* aic_list.append(current_aic)
AppendAic(list, a) == Append(list, a)

\* if it % 10 == 0 or it == max_iter - 1
ShouldReport(i, m) == i % Stride = 0 \/ i = m - 1

\* Variant of StopCheck: the else branch that resets the counter is missing.
StopCheckNoReset(prev, cur, th, cnt) ==
    IF RLess(RSub(prev, cur), th)
    THEN [count |-> cnt + 1, stop |-> cnt + 1 >= Patience]
    ELSE [count |-> cnt, stop |-> FALSE]

\* Lines 43-49: the new counter and whether the function returns at line 47.
StopCheck(prev, cur, th, cnt) ==
    IF RLess(RSub(prev, cur), th)
    THEN [count |-> cnt + 1, stop |-> cnt + 1 >= Patience]
    ELSE [count |-> 0, stop |-> FALSE]

\* The two steps are functions of their arguments alone: their results on the
\* arrays of the model are tabulated once.
EStepTable == [w \in DensTables \cup {NaNTable} |-> ExpectationStep([k \in 1..NumComp |-> Zero], w)]

MStepTable == [rv \in {EStepTable[w].r : w \in DensTables \cup {NaNTable}} |->
                 MaximizationStep(Dataset, rv, EffectiveCounts(rv, NumComp))]
MStepOn(dv, rv, mc) ==
    IF dv = Dataset /\ rv \in DOMAIN MStepTable /\ mc = EffectiveCounts(rv, NumComp)
    THEN MStepTable[rv] ELSE MaximizationStep(dv, rv, mc)

\* compute_aic of each array of weighted densities.
AicOf == [t \in DensTables \cup {NaNTable} |-> ComputeAic(NumComp, t)]

\* The values compute_aic can return for finite parameters, and the arrays it
\* returns each of them for.
FiniteAics == {AicOf[t] : t \in DensTables}
TablesScored == [a \in FiniteAics |-> {t \in DensTables : AicOf[t] = a}]

\* The arrays pi[i] * pdf(data) expectation_step can compute from the current
\* parameters: NaN when a parameter is; otherwise, after iteration 0, an array
\* compute_aic has just scored as previous_aic (line 72 evaluates the same
\* expression on the same parameters as line 57 of the next iteration).
EStepInputs(piv, muv, covv, i, prev) ==
    IF ~ParamsFinite(piv, muv, covv) THEN {NaNTable}
    ELSE IF i = 0 \/ prev \notin FiniteAics THEN DensTables
    ELSE TablesScored[prev]

\* What expectation_step can return, tabulated by the previous score.
EStepAny == {EStepTable[w] : w \in DensTables}
EStepAfter == [a \in FiniteAics |-> {EStepTable[w] : w \in TablesScored[a]}]
EStepResults(piv, muv, covv, i, prev) ==
    IF Len(piv) # NumComp
    THEN {ExpectationStep(piv, w) : w \in EStepInputs(piv, muv, covv, i, prev)}
    ELSE IF ~ParamsFinite(piv, muv, covv) THEN {EStepTable[NaNTable]}
    ELSE IF i = 0 \/ prev \notin FiniteAics THEN EStepAny
    ELSE EStepAfter[prev]

\* The values compute_aic can return for the updated parameters.
AicOutcomes(piv, muv, covv) ==
    IF ParamsFinite(piv, muv, covv) THEN FiniteAics ELSE {AicOf[NaNTable]}

Init ==
    /\ max_iter \in 0..MaxIter
    /\ threshold \in Thresholds
    /\ \E seed \in Seeds :
         LET p == InitializeParameters(NumComp, seed)
         IN heap = (Obj("data", 0) :> Dataset) @@ (Obj("pi", 0) :> p.pis)
                   @@ (Obj("mu", 0) :> p.mus) @@ (Obj("cov", 0) :> p.sigmas)
    /\ data = Obj("data", 0)
    /\ pi = Obj("pi", 0)
    /\ mu = Obj("mu", 0)
    /\ cov = Obj("cov", 0)
    /\ r = NoObj
    /\ m_c = NoObj
    /\ previous_aic = InitialPreviousAic
    /\ no_improve_count = 0
    /\ aic_list = <<>>
    /\ it = 0
    /\ status = "RUNNING"
    /\ shown = <<>>
    /\ message = ""
    /\ e_steps = 0

\* One pass of the loop body, lines 36-51.
Iterate ==
    /\ status = "RUNNING"
    /\ LoopGuard(it, max_iter)
    \* r, m_c, pi = expectation_step(data, mu, cov, pi)
    /\ \E e \in EStepResults(heap[pi], heap[mu], heap[cov], it, previous_aic) :
         \* mu, cov = maximization_step(data, r, m_c)
         LET m == MStepOn(heap[data], e.r, e.m_c)
         IN /\ r' = Rebind(r, Obj("r", it + 1))
            /\ m_c' = Rebind(m_c, Obj("m_c", it + 1))
            /\ pi' = Rebind(pi, Obj("pi", it + 1))
            /\ mu' = Rebind(mu, Obj("mu", it + 1))
            /\ cov' = Rebind(cov, Obj("cov", it + 1))
            /\ heap' = Store(heap, r', e.r, m_c', e.m_c, pi', e.pi, mu', m.mu, cov', m.cov)
    /\ e_steps' = e_steps + 1
    \* current_aic = compute_aic(data, mu, cov, pi)
    /\ \E current_aic \in AicOutcomes(heap'[pi'], heap'[mu'], heap'[cov']) :
         /\ aic_list' = AppendAic(aic_list, current_aic)
         /\ shown' = IF ShouldReport(it, max_iter)
                     THEN Append(shown, [it |-> it, aic |-> current_aic,
                                         pi |-> pi', mu |-> mu', cov |-> cov'])
                     ELSE shown
         /\ LET sc == StopCheck(previous_aic, current_aic, threshold, no_improve_count)
            IN /\ no_improve_count' = sc.count
               /\ IF sc.stop
                  THEN /\ status' = "CONVERGED"
                       /\ message' = "Terminating early"
                       /\ UNCHANGED <<previous_aic, it>>
                  ELSE /\ previous_aic' = current_aic
                       /\ it' = it + 1
                       /\ UNCHANGED <<status, message>>
    /\ UNCHANGED <<max_iter, threshold, data>>

\* The loop runs out, lines 52-53.
LoopExit ==
    /\ status = "RUNNING"
    /\ ~LoopGuard(it, max_iter)
    /\ status' = "EXHAUSTED"
    /\ message' = "Algorithm did not converge"
    /\ UNCHANGED <<max_iter, threshold, data, pi, mu, cov, r, m_c, heap, previous_aic,
                   no_improve_count, aic_list, it, shown, e_steps>>

Next == Iterate \/ LoopExit

Spec == Init /\ [][Next]_vars

-----------------------------------------------------------------------------
\* run_em_algorithm as a function of the scores s its iterations compute:
\* the outcome and the list returned, from iteration i on.
RECURSIVE Replay(_, _, _, _, _, _)
Replay(s, th, m, i, prev, cnt) ==
    IF ~LoopGuard(i, m) THEN [status |-> "EXHAUSTED", ret |-> SubSeq(s, 1, i)]
    ELSE IF i >= Len(s) THEN [status |-> "RUNNING", ret |-> s]
    ELSE LET sc == StopCheck(prev, s[i + 1], th, cnt)
         IN IF sc.stop THEN [status |-> "CONVERGED", ret |-> SubSeq(s, 1, i + 1)]
            ELSE Replay(s, th, m, i + 1, s[i + 1], sc.count)

-----------------------------------------------------------------------------
\* Properties.

\* Delta < theta at the j-th score of s (iteration j - 1), with +inf before the first.
Small(s, th, j) == RLess(RSub(IF j = 1 THEN PInf ELSE s[j - 1], s[j]), th)

\* The three most recent iterations at the j-th score each had Delta < theta.
Fires(s, th, j) == j >= 3 /\ Small(s, th, j) /\ Small(s, th, j - 1) /\ Small(s, th, j - 2)

\* The number of consecutive iterations with Delta < theta that end at the j-th score.
RECURSIVE Trail(_, _, _)
Trail(s, th, j) == IF j = 0 \/ ~Small(s, th, j) THEN 0 ELSE 1 + Trail(s, th, j - 1)

Terminal == status \in {"CONVERGED", "EXHAUSTED"}
Positive(th) == RLess(Zero, th)

\* C1: with threshold > 0, the run is CONVERGED exactly when the latest
\* iteration is the first at which the three most recent iterations each had
\* Delta = previous_AIC - current_AIC < threshold; an iteration with
\* Delta >= threshold leaves the counter at 0 (the counter is the number of
\* consecutive iterations with Delta < threshold just run); the sign of Delta
\* plays no part.
C1_StopRule ==
    Positive(threshold) =>
        LET n == Len(aic_list)
        IN /\ (status = "CONVERGED") <=> (n >= 1 /\ Fires(aic_list, threshold, n))
           /\ \A j \in 1..(n - 1) : ~Fires(aic_list, threshold, j)
           /\ (n >= 1 /\ ~Small(aic_list, threshold, n)) => no_improve_count = 0
           /\ no_improve_count = Trail(aic_list, threshold, n)

\* C1 witness: a run with threshold > 0 stopped as CONVERGED by three AIC
\* increases in a row, after an earlier iteration reset the counter.
C1_Witness ==
    /\ Positive(threshold)
    /\ status = "CONVERGED"
    /\ Len(aic_list) >= 5
    /\ \A j \in (Len(aic_list) - 2)..Len(aic_list) : RLess(aic_list[j - 1], aic_list[j])

\* C2: a run with max_iter >= 1 executes at most max_iter iterations: every
\* step either runs one more iteration within the budget or ends the run,
\* and a run that has ended takes no further step.  It ends in exactly one of
\* CONVERGED and EXHAUSTED; it ends EXHAUSTED only with the stopping rule
\* never fired and a trajectory of exactly max_iter values, and once max_iter
\* iterations ran without the rule firing it can only end EXHAUSTED.
C2_Safe ==
    max_iter >= 1 =>
        /\ status \in {"RUNNING", "CONVERGED", "EXHAUSTED"}
        /\ e_steps <= max_iter
        /\ status = "EXHAUSTED" =>
              /\ Len(aic_list) = max_iter
              /\ e_steps = max_iter
              /\ \A j \in 1..Len(aic_list) : ~Fires(aic_list, threshold, j)
        /\ (e_steps = max_iter /\ \A j \in 1..Len(aic_list) : ~Fires(aic_list, threshold, j))
              => status # "CONVERGED"
C2_Progress ==
    max_iter >= 1 =>
        /\ status = "RUNNING"
        /\ \/ e_steps' = e_steps + 1 /\ e_steps' <= max_iter
           \/ e_steps' = e_steps /\ e_steps = max_iter /\ status' = "EXHAUSTED"
C2_Terminates == [](C2_Safe) /\ [][C2_Progress]_vars

\* C2 witness: max_iter = 1, the run is EXHAUSTED with a trajectory of length 1.
C2_Witness == max_iter = 1 /\ status = "EXHAUSTED" /\ Len(aic_list) = 1

\* C3: the trajectory has one value per iteration executed, a step only ever
\* appends one value to it, the value appended is there before the stop check
\* (the trajectory of a CONVERGED run ends with the score of the iteration
\* that stopped it, and a snapshot shows the score just appended), and it is
\* non-empty once an iteration ran.
C3_LengthInv ==
    /\ Len(aic_list) = e_steps
    /\ status = "RUNNING" => Len(aic_list) = it
    /\ status = "CONVERGED" => Len(aic_list) = it + 1
    /\ \A i \in 1..Len(shown) :
          shown[i].it + 1 <= Len(aic_list) /\ shown[i].aic = aic_list[shown[i].it + 1]
C3_AppendOnly ==
    /\ Len(aic_list') >= Len(aic_list)
    /\ SubSeq(aic_list', 1, Len(aic_list)) = aic_list
    /\ e_steps' = e_steps + 1 => Len(aic_list') = Len(aic_list) + 1
    /\ e_steps' = e_steps => aic_list' = aic_list
C3_Trajectory == [](C3_LengthInv) /\ [][C3_AppendOnly]_vars

\* C3 witness: a run stopped by iteration 3 holds four values.
C3_Witness == status = "CONVERGED" /\ it = 3 /\ Len(aic_list) = 4 /\ e_steps = 4

\* C4: no run that ends CONVERGED returns the value a run that ends EXHAUSTED
\* returns (same data, same max_iter, any threshold > 0): the returned value
\* tells the two outcomes apart.
C4_ReportedDistinctly ==
    status = "CONVERGED" =>
        \A th \in Thresholds :
            Positive(th) =>
                Replay(aic_list, th, max_iter, 0, InitialPreviousAic, 0)
                    # [status |-> "EXHAUSTED", ret |-> aic_list]

\* C5: with threshold <= 0 or max_iter < 1 no expectation step is ever
\* executed and no trajectory is returned.
C5_RejectsInvalid ==
    (~Positive(threshold) \/ max_iter < 1) => (e_steps = 0 /\ ~Terminal)

\* C6: the trajectory never holds a non-finite AIC and the run never holds
\* non-finite parameters: a degenerate iteration stops the fit with the last
\* valid parameters and trajectory.
C6_StopsOnDegeneracy ==
    /\ \A j \in 1..Len(aic_list) : IsFinite(aic_list[j])
    /\ ParamsFinite(heap[pi], heap[mu], heap[cov])

\* C7: after every iteration whose rows of weighted densities have non-zero
\* sums (so that r is finite), every row of r sums to 1, m_c is the vector of
\* column sums of r, and the mixing weights sum to 1 and equal m_c / N.
C7_MixingWeights ==
    (e_steps >= 1 /\ MatFinite(heap[r])) =>
        LET rv == heap[r]
            mc == heap[m_c]
            pv == heap[pi]
            n  == Len(heap[data])
        IN /\ \A i \in 1..n : SeqSum(rv[i]) = Num(1)
           /\ \A k \in 1..Len(mc) : mc[k] = SeqSum([i \in 1..n |-> rv[i][k]])
           /\ SeqSum(pv) = Num(1)
           /\ \A k \in 1..Len(pv) : pv[k] = RDiv(mc[k], Num(n))

\* C7 witness: an iteration ran on non-zero row sums and gave unequal weights.
C7_Witness ==
    /\ e_steps >= 2
    /\ MatFinite(heap[r])
    /\ \E k \in 1..Len(heap[pi]) : RLess(Zero, heap[pi][k]) /\ RLess(heap[pi][k], heap[pi][1])

\* C8: every iteration whose index is a multiple of 10 and the last iteration
\* of a finished run have a snapshot; a snapshot carries the score and the
\* parameter arrays computed in its iteration.
C8_FinalReported ==
    /\ \A j \in 0..(e_steps - 1) :
          (j % Stride = 0 \/ (Terminal /\ j = e_steps - 1))
              => \E i \in 1..Len(shown) : shown[i].it = j
    /\ \A i \in 1..Len(shown) :
          /\ shown[i].aic = aic_list[shown[i].it + 1]
          /\ shown[i].pi = Obj("pi", shown[i].it + 1)
          /\ shown[i].mu = Obj("mu", shown[i].it + 1)
          /\ shown[i].cov = Obj("cov", shown[i].it + 1)

\* C9: with threshold > 0, iteration 0 leaves the no-improvement counter at
\* 0, the counter is in 0..2 whenever an iteration starts, and a CONVERGED
\* run holds at least 4 values.
C9_FirstIteration ==
    Positive(threshold) =>
        /\ e_steps = 1 => no_improve_count = 0
        /\ status = "RUNNING" => no_improve_count \in 0..2
        /\ status = "CONVERGED" => Len(aic_list) >= 4

\* C9 witness: the earliest stop, CONVERGED at iteration 3.
C9_Witness == Positive(threshold) /\ status = "CONVERGED" /\ Len(aic_list) = 4 /\ it = 3

\* C10: no step writes an object it did not build: the caller's dataset and
\* initial pi, mu, cov and every array passed to expectation_step or
\* maximization_step keep their values, and an iteration binds pi, mu, cov,
\* r and m_c to new objects.
C10_Step ==
    /\ CallerObjects \subseteq DOMAIN heap'
    /\ \A o \in (DOMAIN heap) \cap (DOMAIN heap') : heap'[o] = heap[o]
    /\ e_steps' # e_steps => {pi', mu', cov', r', m_c'} \cap DOMAIN heap = {}
C10_Frame == [][C10_Step]_vars

\* C10 witness: two iterations ran and the parameters differ from the
\* caller's, which still hold what initialize_parameters returned.
C10_Witness ==
    /\ e_steps >= 2
    /\ heap[pi] # heap[Obj("pi", 0)]
    /\ heap[mu] # heap[Obj("mu", 0)]
    /\ \E seed \in Seeds : heap[Obj("pi", 0)] = InitializeParameters(NumComp, seed).pis

=============================================================================
